---- MODULE Spec2Model ----
(***************************************************************************)
(* Model of update_index_from_excel.py: the worksheet-to-records           *)
(* extractor, the field resolver, the content formatters, the anchor-based *)
(* HTML patcher and the run of main / process_workbook_to_html.            *)
(*                                                                         *)
(* Text is modelled character by character: a Python str is a TLA+ string  *)
(* and positions are 1-based (Python's 0-based position p is p + 1 here;   *)
(* "not found" is 0 where Python gives -1 or None).  String literals of    *)
(* the source that are not ASCII are written with their \uXXXX escapes     *)
(* (lower-case hex), e.g. the two characters U+6388 U+6743 are written     *)
(* "\\u6388\\u6743".                                                       *)
(***************************************************************************)
EXTENDS Integers, Sequences, FiniteSets, TLC

VARIABLES pc, env, disk, html, updates, text_updates, idx, upd, writes, applied,
          base, fn, inp, out

runVars == <<pc, env, disk, html, updates, text_updates, idx, upd, writes, applied, base>>
fnVars == <<fn, inp, out>>
vars == <<pc, env, disk, html, updates, text_updates, idx, upd, writes, applied,
          base, fn, inp, out>>

(***************************************************************************)
(* Python str primitives                                                   *)
(***************************************************************************)
Min(S) == CHOOSE m \in S : \A n \in S : m <= n

Ch(s, i) == SubSeq(s, i, i)

UpperLetters == "ABCDEFGHIJKLMNOPQRSTUVWXYZ"

LowerLetters == "abcdefghijklmnopqrstuvwxyz"

Digits == "0123456789"

InStr(c, s) == \E i \in 1..Len(s) : Ch(s, i) = c

\* str.lower() on one character
LowerCh(c) ==
    IF InStr(c, UpperLetters)
    THEN Ch(LowerLetters, CHOOSE i \in 1..Len(UpperLetters) : Ch(UpperLetters, i) = c)
    ELSE c

RECURSIVE Lower(_)
Lower(s) == IF s = "" THEN "" ELSE LowerCh(Ch(s, 1)) \o Lower(SubSeq(s, 2, Len(s)))

\* the characters str.strip() removes and the regex class \s matches
IsSpace(c) == c \in {" ", "\t", "\n", "\r", "\f"}

\* the regex class \w
IsWordCh(c) == InStr(c, UpperLetters) \/ InStr(c, LowerLetters) \/ InStr(c, Digits) \/ c = "_"

RECURSIVE LStrip(_)
LStrip(s) == IF s # "" /\ IsSpace(Ch(s, 1)) THEN LStrip(SubSeq(s, 2, Len(s))) ELSE s

RECURSIVE RStrip(_)
RStrip(s) == IF s # "" /\ IsSpace(Ch(s, Len(s))) THEN RStrip(SubSeq(s, 1, Len(s) - 1)) ELSE s

Strip(s) == RStrip(LStrip(s))

\* s[i:i+len(p)] == p
StartsAt(s, p, i) == i >= 1 /\ i + Len(p) - 1 <= Len(s) /\ SubSeq(s, i, i + Len(p) - 1) = p

\* str.find(p, from): the least position >= from where p occurs, 0 if none
Find(s, p, from) ==
    LET hits == {i \in from..(Len(s) - Len(p) + 1) : StartsAt(s, p, i)}
    IN  IF hits = {} THEN 0 ELSE Min(hits)

\* p in s
Contains(s, p) == Find(s, p, 1) # 0

EndsWith(s, p) == Len(p) <= Len(s) /\ SubSeq(s, Len(s) - Len(p) + 1, Len(s)) = p

\* sep.join(parts)
RECURSIVE Join(_, _)
Join(parts, sep) ==
    IF parts = <<>> THEN ""
    ELSE IF Len(parts) = 1 THEN parts[1]
    ELSE parts[1] \o sep \o Join(Tail(parts), sep)

\* s.split(sep) for a non-empty separator
RECURSIVE Split(_, _)
Split(s, sep) ==
    LET p == Find(s, sep, 1)
    IN  IF p = 0 THEN <<s>>
        ELSE <<SubSeq(s, 1, p - 1)>> \o Split(SubSeq(s, p + Len(sep), Len(s)), sep)

\* str.splitlines(): breaks at \n, \r, \r\n and \f; no empty last line
RECURSIVE SplitLines(_)
SplitLines(s) ==
    LET brk == {i \in 1..Len(s) : Ch(s, i) \in {"\n", "\r", "\f"}}
    IN  IF s = "" THEN <<>>
        ELSE IF brk = {} THEN <<s>>
        ELSE LET p == Min(brk)
                 w == IF Ch(s, p) = "\r" /\ p < Len(s) /\ Ch(s, p + 1) = "\n" THEN 2 ELSE 1
             IN  <<SubSeq(s, 1, p - 1)>> \o SplitLines(SubSeq(s, p + w, Len(s)))

\* str(n) for an int
RECURSIVE NatStr(_)
NatStr(n) == IF n < 10 THEN Ch(Digits, n + 1) ELSE NatStr(n \div 10) \o Ch(Digits, (n % 10) + 1)

IntStr(n) == IF n < 0 THEN "-" \o NatStr(0 - n) ELSE NatStr(n)

(***************************************************************************)
(* A dict is a sequence of <<key, value>> pairs with distinct keys, in      *)
(* insertion order (Python 3.7+ dict order).                               *)
(***************************************************************************)
Keys(d) == [i \in 1..Len(d) |-> d[i][1]]

Values(d) == [i \in 1..Len(d) |-> d[i][2]]

HasKey(d, k) == \E i \in 1..Len(d) : d[i][1] = k

\* d.get(k, "")
Get(d, k) == IF HasKey(d, k) THEN d[CHOOSE i \in 1..Len(d) : d[i][1] = k][2] ELSE ""

\* d[k] = v: an existing key keeps its place and takes the new value
DictSet(d, k, v) ==
    IF HasKey(d, k)
    THEN [i \in 1..Len(d) |-> IF d[i][1] = k THEN <<k, v>> ELSE d[i]]
    ELSE Append(d, <<k, v>>)

\* [v for v in seq if v]
RECURSIVE NonEmpty(_)
NonEmpty(seq) ==
    IF seq = <<>> THEN <<>>
    ELSE (IF Head(seq) # "" THEN <<Head(seq)>> ELSE <<>>) \o NonEmpty(Tail(seq))

(***************************************************************************)
(* read_rows_as_dicts.  A cell is None, a str or an int.                   *)
(***************************************************************************)
NoneCell == [t |-> "none"]

StrCell(s) == [t |-> "str", s |-> s]

IntCell(n) == [t |-> "int", n |-> n]

\* str(cell)
CellStr(cell) == IF cell.t = "int" THEN IntStr(cell.n) ELSE IF cell.t = "str" THEN cell.s ELSE "None"

\* cell is not None and str(cell).strip() != ""
CellNonBlank(cell) == cell.t # "none" /\ Strip(CellStr(cell)) # ""

\* row and any(cell is not None and str(cell).strip() != "" for cell in row)
RowNonBlank(row) == \E j \in 1..Len(row) : CellNonBlank(row[j])

\* "" if c is None else str(c).strip()
CellText(cell) == IF cell.t = "none" THEN "" ELSE Strip(CellStr(cell))

\* the index of the first non-empty row, 0 if there is none
HeaderIdx(rows) ==
    LET hits == {i \in 1..Len(rows) : RowNonBlank(rows[i])}
    IN  IF hits = {} THEN 0 ELSE Min(hits)

\* headers: blank header cells become col_<0-based position>
Headers(hrow) ==
    [j \in 1..Len(hrow) |->
        IF CellText(hrow[j]) = "" THEN "col_" \o IntStr(j - 1) ELSE CellText(hrow[j])]

\* entry = {}; for key, cell in zip(headers, row): entry[key] = ...
RECURSIVE ZipEntry(_, _, _)
ZipEntry(headers, row, entry) ==
    IF headers = <<>> \/ row = <<>> THEN entry
    ELSE ZipEntry(Tail(headers), Tail(row), DictSet(entry, Head(headers), CellText(Head(row))))

MakeEntry(headers, row) == ZipEntry(headers, row, <<>>)

RECURSIVE DataDicts(_, _)
DataDicts(headers, rows) ==
    IF rows = <<>> THEN <<>>
    ELSE (IF RowNonBlank(Head(rows)) THEN <<MakeEntry(headers, Head(rows))>> ELSE <<>>)
         \o DataDicts(headers, Tail(rows))

\* the extractor taking the header row as the first data row
read_rows_with_header(rows) ==
    LET header_idx == HeaderIdx(rows)
    IN  IF header_idx = 0 THEN <<>>
        ELSE DataDicts(Headers(rows[header_idx]), SubSeq(rows, header_idx, Len(rows)))

read_rows_as_dicts(rows) ==
    LET header_idx == HeaderIdx(rows)
    IN  IF header_idx = 0 THEN <<>>
        ELSE DataDicts(Headers(rows[header_idx]), SubSeq(rows, header_idx + 1, Len(rows)))

\* re.sub(r"\s+", " ", s): every run of whitespace becomes one space
RECURSIVE CollapseSpaces(_)
CollapseSpaces(s) ==
    IF s = "" THEN ""
    ELSE IF IsSpace(Ch(s, 1))
         THEN " " \o CollapseSpaces(LStrip(s))
         ELSE Ch(s, 1) \o CollapseSpaces(SubSeq(s, 2, Len(s)))

normalize_name(name) == CollapseSpaces(Lower(Strip(name)))

(***************************************************************************)
(* find_col.  An Optional[str] is <<>> (None) or <<key>>.                   *)
(***************************************************************************)
\* lower_map = {k.lower(): k for k in entry.keys()}: the last key wins
RECURSIVE LowerMap(_, _)
LowerMap(keys, m) ==
    IF keys = <<>> THEN m
    ELSE LowerMap(Tail(keys), DictSet(m, Lower(Head(keys)), Head(keys)))

\* the first pass taking the candidates from the last to the first
RECURSIVE ExactPassLastCandidate(_, _)
ExactPassLastCandidate(lower_map, possible) ==
    IF possible = <<>> THEN <<>>
    ELSE IF HasKey(lower_map, Lower(possible[Len(possible)]))
         THEN <<Get(lower_map, Lower(possible[Len(possible)]))>>
         ELSE ExactPassLastCandidate(lower_map, SubSeq(possible, 1, Len(possible) - 1))

\* the first pass: for p in possible: if p.lower() in lower_map: return ...
RECURSIVE ExactPass(_, _)
ExactPass(lower_map, possible) ==
    IF possible = <<>> THEN <<>>
    ELSE IF HasKey(lower_map, Lower(Head(possible)))
         THEN <<Get(lower_map, Lower(Head(possible)))>>
         ELSE ExactPass(lower_map, Tail(possible))

\* the second pass: the first key containing some candidate
RECURSIVE PartialPass(_, _)
PartialPass(keys, possible) ==
    IF keys = <<>> THEN <<>>
    ELSE IF \E j \in 1..Len(possible) : Contains(Lower(Head(keys)), Lower(possible[j]))
         THEN <<Head(keys)>>
         ELSE PartialPass(Tail(keys), possible)

\* the resolver trying the substring pass before the exact pass
find_col_partial_first(entry, possible) ==
    LET partial == PartialPass(Keys(entry), possible)
    IN  IF partial # <<>> THEN partial
        ELSE ExactPass(LowerMap(Keys(entry), <<>>), possible)

find_col(entry, possible) ==
    LET exact == ExactPass(LowerMap(Keys(entry), <<>>), possible)
    IN  IF exact # <<>> THEN exact ELSE PartialPass(Keys(entry), possible)

\* find_col(...) or ""
OrEmpty(opt) == IF opt = <<>> THEN "" ELSE opt[1]

\* r.get(find_col(r, names) or "", "").strip(), and r.get(k, "").strip() if k else ""
Field(r, possible) == Strip(Get(r, OrEmpty(find_col(r, possible))))

(***************************************************************************)
(* highlight_name_globally and highlight_authors                           *)
(***************************************************************************)
\* the regex assertion \b at position i of s
WordBoundary(s, i) ==
    LET before == i > 1 /\ i - 1 <= Len(s) /\ IsWordCh(Ch(s, i - 1))
        after == i >= 1 /\ i <= Len(s) /\ IsWordCh(Ch(s, i))
    IN  before # after

\* the end of the longest run of \s starting at i (i itself if none)
RECURSIVE SkipSpaces(_, _)
SkipSpaces(s, i) == IF i <= Len(s) /\ IsSpace(Ch(s, i)) THEN SkipSpaces(s, i + 1) ELSE i

\* the literal p at position i, ignoring case
StartsAtIgnoreCase(s, p, i) ==
    i >= 1 /\ i + Len(p) - 1 <= Len(s) /\ Lower(SubSeq(s, i, i + Len(p) - 1)) = Lower(p)

\* NAME_HIGHLIGHT_PATTERN matched at position i: the position after the match, 0 if none
NameMatchEnd(s, i) ==
    LET j1 == SkipSpaces(s, i + 6)
        alt1 == /\ StartsAtIgnoreCase(s, "Yuchen", i)
                /\ j1 > i + 6
                /\ StartsAtIgnoreCase(s, "Li", j1)
                /\ WordBoundary(s, j1 + 2)
        dot == IF StartsAt(s, ".", i + 1) THEN i + 2 ELSE i + 1
        j2 == SkipSpaces(s, dot)
        alt2 == /\ StartsAtIgnoreCase(s, "Y", i)
                /\ StartsAtIgnoreCase(s, "Li", j2)
                /\ WordBoundary(s, j2 + 2)
    IN  IF ~WordBoundary(s, i) THEN 0
        ELSE IF alt1 THEN j1 + 2
        ELSE IF alt2 THEN j2 + 2
        ELSE 0

\* the f-string of highlight_authors
FontDeepblue(tok) == "<font class=\"deepblue\">" \o tok \o "</font>"

\* the replacement template of highlight_name_globally, a raw string: re.sub
\* keeps the backslash of the unknown escape \" in its output
TemplateDeepblue(tok) == "<font class=\\\"deepblue\\\">" \o tok \o "</font>"

\* NAME_HIGHLIGHT_PATTERN.sub(...), scanning from position i
RECURSIVE NameSubFrom(_, _)
NameSubFrom(s, i) ==
    IF i > Len(s) THEN ""
    ELSE LET e == NameMatchEnd(s, i)
         IN  IF e # 0
             THEN TemplateDeepblue(SubSeq(s, i, e - 1)) \o NameSubFrom(s, e)
             ELSE Ch(s, i) \o NameSubFrom(s, i + 1)

highlight_name_globally(text) == NameSubFrom(text, 1)

RECURSIVE DigitsValue(_, _)
DigitsValue(s, acc) ==
    IF s = "" THEN acc
    ELSE IF Ch(s, 1) = "_" THEN DigitsValue(SubSeq(s, 2, Len(s)), acc)
    ELSE DigitsValue(SubSeq(s, 2, Len(s)),
                     10 * acc + ((CHOOSE d \in 1..10 : Ch(Digits, d) = Ch(s, 1)) - 1))

\* int(s.strip()): <<n>>, or <<>> where Python raises ValueError
ParseInt(s) ==
    LET t == Strip(s)
        signed == t # "" /\ Ch(t, 1) \in {"+", "-"}
        body == IF signed THEN SubSeq(t, 2, Len(t)) ELSE t
        wellFormed ==
            /\ body # ""
            /\ \A i \in 1..Len(body) : InStr(Ch(body, i), Digits) \/ Ch(body, i) = "_"
            /\ Ch(body, 1) # "_" /\ Ch(body, Len(body)) # "_"
            /\ ~Contains(body, "__")
        n == DigitsValue(body, 0)
    IN  IF ~wellFormed THEN <<>>
        ELSE IF signed /\ Ch(t, 1) = "-" THEN <<0 - n>> ELSE <<n>>

\* the index taken as 0-based
AuthorIndexZeroBased(author_order_value) ==
    IF author_order_value = <<>> \/ author_order_value[1] = "" THEN <<>>
    ELSE LET parsed == ParseInt(author_order_value[1])
         IN  IF parsed = <<>> \/ parsed[1] < 0 THEN <<>> ELSE <<parsed[1] + 1>>

\* author_index: <<k>> for a parsed index >= 1, <<>> for None
AuthorIndex(author_order_value) ==
    IF author_order_value = <<>> \/ author_order_value[1] = "" THEN <<>>
    ELSE LET parsed == ParseInt(author_order_value[1])
         IN  IF parsed = <<>> \/ parsed[1] < 1 THEN <<>> ELSE parsed

\* tokens = [t.strip() for t in authors.split(',')]
AuthorTokens(authors) ==
    LET raw == Split(authors, ",") IN [i \in 1..Len(raw) |-> Strip(raw[i])]

\* author_order_value is an Optional[str]: <<>> or <<s>>
highlight_authors(authors, author_order_value) ==
    LET author_index == AuthorIndex(author_order_value)
        tokens == AuthorTokens(authors)
    IN  IF authors = "" THEN authors
        ELSE IF author_index # <<>> /\ 1 <= author_index[1] /\ author_index[1] <= Len(tokens)
        THEN Join([i \in 1..Len(tokens) |->
                      IF i = author_index[1] THEN FontDeepblue(tokens[i]) ELSE tokens[i]],
                  ", ")
        ELSE highlight_name_globally(authors)

(***************************************************************************)
(* Content formatters.  A list of lines is a sequence of strings.           *)
(***************************************************************************)
\* v in the accepted visibility tokens
VisibleTokens == {"1", "true", "True", "\\u662f", "yes", "Yes"}

Li(text) == "<li>" \o text \o "</li>"

\* one news row with the text of a record without a designated field taken from the
\* join of all its values
NewsItemJoinUndesignated(r) ==
    LET date_key == find_col(r, <<"date", "\\u65e5\\u671f", "\\u65f6\\u95f4">>)
        found == find_col(r, <<"text", "content", "\\u63cf\\u8ff0", "description", "desc", "\\u5185\\u5bb9", "news">>)
        date_val == Strip(IF date_key # <<>> THEN Get(r, date_key[1]) ELSE "")
        text0 == Strip(IF found # <<>> THEN Get(r, found[1]) ELSE "")
        text_val == IF text0 = "" THEN Join(NonEmpty(Values(r)), ", ") ELSE text0
    IN  IF date_val # ""
        THEN <<"<li><i>" \o date_val \o "</i> : " \o text_val \o "</li>", "<br>">>
        ELSE <<Li(text_val), "<br>">>

\* one news row: the lines it appends to items
NewsItem(r) ==
    LET date_key == find_col(r, <<"date", "\\u65e5\\u671f", "\\u65f6\\u95f4">>)
        found == find_col(r, <<"text", "content", "\\u63cf\\u8ff0", "description", "desc", "\\u5185\\u5bb9", "news">>)
        text_key == IF found # <<>> THEN found
                    ELSE IF r # <<>> THEN <<r[1][1]>> ELSE <<>>
        date_val == Strip(IF date_key # <<>> THEN Get(r, date_key[1]) ELSE "")
        text0 == Strip(IF text_key # <<>> THEN Get(r, text_key[1]) ELSE "")
        text_val == IF text0 = "" THEN Join(NonEmpty(Values(r)), ", ") ELSE text0
    IN  IF date_val # ""
        THEN <<"<li><i>" \o date_val \o "</i> : " \o text_val \o "</li>", "<br>">>
        ELSE <<Li(text_val), "<br>">>

\* the concatenation of a sequence of sequences
RECURSIVE Flatten(_)
Flatten(seqs) == IF seqs = <<>> THEN <<>> ELSE Head(seqs) \o Flatten(Tail(seqs))

build_news_items(rows) == Join(Flatten([i \in 1..Len(rows) |-> NewsItem(rows[i])]), "\n")

\* re.sub(r"^\s*\d+\s*([,\.)<U+3001>]\s*)?", "", text)
strip_leading_index(text) ==
    LET d0 == SkipSpaces(text, 1)
        digitEnd == Min({i \in d0..(Len(text) + 1) :
                          i > Len(text) \/ ~InStr(Ch(text, i), Digits)})
        s1 == SkipSpaces(text, digitEnd)
        sepEnd == IF s1 <= Len(text) /\ Ch(text, s1) \in {",", ".", ")"} THEN s1 + 1
                  ELSE IF StartsAt(text, "\\u3001", s1) THEN s1 + Len("\\u3001")
                  ELSE 0
        e == IF sepEnd # 0 THEN SkipSpaces(text, sepEnd) ELSE s1
    IN  IF digitEnd = d0 THEN text ELSE SubSeq(text, e, Len(text))

\* the visible flag compared with the accepted tokens without regard to case
HiddenByFlagIgnoreCase(r, visible_key) ==
    LET vis_raw == Strip(Get(r, visible_key))
    IN  visible_key # "" /\ vis_raw # "" /\ Lower(vis_raw) \notin VisibleTokens

\* skipped by the visible flag
HiddenByFlag(r, visible_key) ==
    LET vis_raw == Strip(Get(r, visible_key))
    IN  visible_key # "" /\ vis_raw # "" /\ vis_raw \notin VisibleTokens

\* the values of the fields of r that are non-empty and whose lowered key is not in skip
RECURSIVE OtherParts(_, _)
OtherParts(r, skip) ==
    IF r = <<>> THEN <<>>
    ELSE (IF r[1][2] # "" /\ Lower(r[1][1]) \notin skip THEN <<r[1][2]>> ELSE <<>>)
         \o OtherParts(Tail(r), skip)

\* the state parenthetical with the two tokens tested in the other order
StateHtmlGrantFirst(state_val) ==
    IF state_val = "" THEN ""
    ELSE IF Contains(state_val, "\\u6388\\u6743")
         THEN " <font class=\"red\"><b>(" \o state_val \o ")</b></font>"
    ELSE " <font class=\"blue\"><b>(" \o state_val \o ")</b></font>"

\* the state parenthetical of a patent
StateHtml(state_val) ==
    IF state_val = "" THEN ""
    ELSE IF Contains(state_val, "\\u516c\\u5f00")
         THEN " <font class=\"blue\"><b>(" \o state_val \o ")</b></font>"
    ELSE IF Contains(state_val, "\\u6388\\u6743")
         THEN " <font class=\"red\"><b>(" \o state_val \o ")</b></font>"
    ELSE " <font class=\"blue\"><b>(" \o state_val \o ")</b></font>"

PatentItem(r) ==
    LET idx_key == OrEmpty(find_col(r, <<"index", "\\u5e8f\\u53f7">>))
        state_key == OrEmpty(find_col(r, <<"state", "\\u72b6\\u6001">>))
        visible_key == OrEmpty(find_col(r, <<"visible", "visable", "\\u5c55\\u793a">>))
        title_key == OrEmpty(find_col(r, <<"title", "\\u9898\\u76ee", "patent_title">>))
        title_val == IF title_key # "" THEN Strip(Get(r, title_key)) ELSE ""
        authors_key == OrEmpty(find_col(r, <<"authors", "author", "\\u4f5c\\u8005">>))
        skip == {"", Lower(idx_key), Lower(state_key), Lower(visible_key), "note", "\\u5907\\u6ce8",
                 "author_order", "\\u4f5c\\u8005\\u5e8f", "\\u4f5c\\u8005\\u6b21\\u5e8f", "\\u6b21\\u5e8f",
                 Lower(title_key), Lower(authors_key)}
        parts == (IF title_val # "" THEN <<strip_leading_index(title_val)>> ELSE <<>>)
                 \o OtherParts(r, skip)
        text == Join(parts, ", ")
        state_val == IF state_key # "" THEN Strip(Get(r, state_key)) ELSE ""
    IN  IF HiddenByFlag(r, visible_key) THEN <<>>
        ELSE IF text # "" THEN <<Li(text \o StateHtml(state_val)), "<br>">>
        ELSE <<>>

build_patent_items(rows) == Join(Flatten([i \in 1..Len(rows) |-> PatentItem(rows[i])]), "\n")

AwardItem(r) ==
    LET visible_key == OrEmpty(find_col(r, <<"visible", "visable", "\\u5c55\\u793a">>))
        idx_key == OrEmpty(find_col(r, <<"index", "\\u5e8f\\u53f7">>))
        note_key == OrEmpty(find_col(r, <<"note", "\\u5907\\u6ce8">>))
        year_key == OrEmpty(find_col(r, <<"year", "\\u5e74\\u4efd">>))
        time_key == OrEmpty(find_col(r, <<"time", "\\u65e5\\u671f", "\\u65f6\\u95f4">>))
        skip == {"", Lower(idx_key), Lower(visible_key), Lower(note_key)}
        text0 == strip_leading_index(Join(OtherParts(r, skip), ", "))
        note_val == IF note_key # "" THEN Strip(Get(r, note_key)) ELSE ""
        note_html == IF note_val # "" THEN " <font class=\"red\">(" \o note_val \o ")</font>" ELSE ""
        time_val == IF time_key # "" THEN Strip(Get(r, time_key)) ELSE ""
        year_val == IF year_key # "" THEN Strip(Get(r, year_key)) ELSE ""
        prefix_val == IF time_val # "" THEN time_val ELSE year_val
        text == IF prefix_val # "" THEN prefix_val \o ", " \o text0 ELSE text0
    IN  IF HiddenByFlag(r, visible_key) THEN <<>>
        ELSE IF text # "" THEN <<Li(text \o note_html), "<br>">>
        ELSE <<>>

build_award_items(rows) == Join(Flatten([i \in 1..Len(rows) |-> AwardItem(rows[i])]), "\n")

\* the first row with a non-empty value: its non-empty values joined by " "
RECURSIVE build_text_block(_)
build_text_block(rows) ==
    IF rows = <<>> THEN ""
    ELSE IF NonEmpty(Values(Head(rows))) # <<>> THEN Join(NonEmpty(Values(Head(rows))), " ")
    ELSE build_text_block(Tail(rows))

\* main += "." unless empty or already ending with "."
WithPeriod(main) == IF main # "" /\ ~EndsWith(main, ".") THEN main \o "." ELSE main

\* author_order_val as highlight_authors receives it
AuthorOrderVal(r) ==
    LET author_order_key == OrEmpty(find_col(r, <<"author_order", "\\u4f5c\\u8005\\u5e8f", "\\u4f5c\\u8005\\u6b21\\u5e8f", "\\u6b21\\u5e8f">>))
    IN  IF author_order_key # "" THEN Strip(Get(r, author_order_key)) ELSE ""

compose_pub_main_text(r) ==
    LET raw_authors == Field(r, <<"authors", "author", "\\u4f5c\\u8005">>)
        authors == highlight_authors(raw_authors, <<AuthorOrderVal(r)>>)
        title == Field(r, <<"title", "\\u9898\\u76ee">>)
        container == Field(r, <<"journal", "conference", "book", "venue", "\\u5bb9\\u5668", "\\u520a\\u7269", "\\u671f\\u520a", "\\u4f1a\\u8bae">>)
        pages == Field(r, <<"pages", "pp", "\\u9875">>)
        time0 == Field(r, <<"time", "\\u65e5\\u671f", "\\u65f6\\u95f4">>)
        month == Field(r, <<"month">>)
        year == Field(r, <<"year", "\\u5e74\\u4efd">>)
        time_val == IF time0 # "" THEN time0 ELSE Join(NonEmpty(<<month, year>>), ", ")
        doi_val == Field(r, <<"doi", "doa">>)
        parts == NonEmpty(<<authors,
                            IF title # "" THEN "\"" \o title \o "\"" ELSE "",
                            IF container # "" THEN "<i>" \o container \o "</i>" ELSE "",
                            pages,
                            time_val,
                            IF doi_val # "" THEN "doi: " \o doi_val ELSE "">>)
    IN  WithPeriod(Strip(Join(parts, ", ")))

\* the note parenthetical and the link line shared by publications and book chapters
ExtrasText(r) ==
    LET note_val == Field(r, <<"note", "\\u5907\\u6ce8">>)
        note_link_val == Field(r, <<"note_link", "\\u5907\\u6ce8\\u94fe\\u63a5", "note_url">>)
    IN  IF note_val = "" THEN ""
        ELSE IF note_link_val # ""
        THEN " <font class=\"red\">(<a href='" \o note_link_val \o "' class=\"red\">"
             \o note_val \o "</a>)</font>"
        ELSE " <font class=\"red\">(" \o note_val \o ")</font>"

DeepgreyLink(url) == "<br><a href='" \o url \o "' class=\"deepgrey\">" \o url \o "</a>"

LinkHtml(r) ==
    LET link_val == Field(r, <<"url", "link", "\\u94fe\\u63a5", "\\u5730\\u5740">>)
        doi_val == Field(r, <<"doi", "doa">>)
    IN  IF link_val # "" THEN DeepgreyLink(link_val)
        ELSE IF doi_val # "" THEN DeepgreyLink("https://doi.org/" \o doi_val)
        ELSE ""

build_pub_item(r) == Li(compose_pub_main_text(r) \o ExtrasText(r) \o LinkHtml(r))

build_pub_item_with_trailing_br(r) == build_pub_item(r) \o "\n<br>"

build_book_chapter_item(r) ==
    LET raw_authors == Field(r, <<"authors", "author", "\\u4f5c\\u8005">>)
        authors == highlight_authors(raw_authors, <<AuthorOrderVal(r)>>)
        chapter_title == Field(r, <<"chapter_title", "chapter", "\\u7ae0\\u8282\\u9898\\u76ee">>)
        book_title == Field(r, <<"book_title", "book", "\\u4e66\\u540d">>)
        isbn == Field(r, <<"isbn">>)
        publisher == Field(r, <<"publisher", "\\u51fa\\u7248\\u793e">>)
        year == Field(r, <<"year", "\\u5e74\\u4efd">>)
        parts == NonEmpty(<<authors,
                            IF chapter_title # "" THEN "Chapter \"" \o chapter_title \o "\"" ELSE "",
                            IF book_title # "" THEN "for Book \"" \o book_title \o "\"" ELSE "",
                            IF isbn # "" THEN "ISBN: " \o isbn ELSE "",
                            IF publisher # "" THEN "<i>" \o publisher \o "</i>" ELSE "",
                            year>>)
        main_text == WithPeriod(Join(parts, ", "))
        image_val == Field(r, <<"pics", "image", "\\u56fe\\u7247", "picture">>)
        image_html == IF image_val = "" THEN ""
                      ELSE "<br><br><img src=\"" \o image_val
                           \o "\" width=\"20%\" class=\"animate__animated animate__fadeIn animate__slow animate__delay-1s\">"
    IN  Li(main_text \o ExtrasText(r) \o LinkHtml(r) \o image_html)

build_featured_items(rows) == Join([i \in 1..Len(rows) |-> build_pub_item_with_trailing_br(rows[i])], "\n\n")

BookChapterWithBr(r) == build_book_chapter_item(r) \o "\n<br>"

build_book_chapter_items(rows) == Join([i \in 1..Len(rows) |-> BookChapterWithBr(rows[i])], "\n\n")

build_conference_items_with_trailing_br(rows) ==
    Join([i \in 1..Len(rows) |-> build_pub_item_with_trailing_br(rows[i])], "\n\n")

build_journal_items_with_trailing_br(rows) ==
    Join([i \in 1..Len(rows) |-> build_pub_item_with_trailing_br(rows[i])], "\n\n")

\* one line of the correspondence list
ContactLine(label, value) == "<li><i>" \o label \o "</i> :&nbsp;&nbsp; " \o value \o "</li>"

build_correspondence(rows) ==
    LET first_row == rows[1]
        name_key == find_col(first_row, <<"name", "\\u540d\\u79f0", "field">>)
        content_key == find_col(first_row, <<"content", "\\u5185\\u5bb9", "value">>)
        NameContent(r) ==
            LET name_val == Strip(Get(r, name_key[1]))
                content_val == Strip(Get(r, content_key[1]))
            IN  IF name_val # "" /\ content_val # ""
                THEN <<ContactLine(name_val, content_val), "<br>">> ELSE <<>>
        filled == {i \in 1..Len(rows) : NonEmpty(Values(rows[i])) # <<>>}
        row == IF filled = {} THEN <<>> ELSE rows[Min(filled)]
        email == Field(row, <<"email", "\\u90ae\\u7bb1", "e-mail">>)
        office == Field(row, <<"office", "\\u529e\\u516c\\u5ba4", "lab", "laboratory">>)
        address == Field(row, <<"address", "\\u5730\\u5740", "location">>)
        phone == Field(row, <<"phone", "\\u7535\\u8bdd", "tel">>)
        homepage == Field(row, <<"homepage", "website", "\\u4e2a\\u4eba\\u4e3b\\u9875">>)
        Line(label, value) == IF value # "" THEN <<ContactLine(label, value), "<br>">> ELSE <<>>
        items == IF name_key # <<>> /\ content_key # <<>>
                 THEN Flatten([i \in 1..Len(rows) |-> NameContent(rows[i])])
                 ELSE Line("Email", email) \o Line("Phone", phone) \o Line("Office", office)
                      \o Line("Address", address)
                      \o (IF homepage # ""
                          THEN <<"<li><i>Homepage</i> :&nbsp;&nbsp; <a href='" \o homepage
                                 \o "' class=\"deepgrey\">" \o homepage \o "</a></li>">>
                          ELSE <<>>)
    IN  IF rows = <<>> THEN "" ELSE Join(items, "\n")

(***************************************************************************)
(* HTML patcher: replace_section_list and replace_text_after_section        *)
(***************************************************************************)
\* anchor = f'<div id="{section_id}"></div>'
Anchor(section_id) == "<div id=\"" \o section_id \o "\"></div>"

\* "<\s*TAG([^>]*)>" (IGNORECASE) matched at position i: the position of its ">", 0 if none
OpenTagAt(s, tag, i) ==
    LET j == SkipSpaces(s, i + 1)
    IN  IF StartsAt(s, "<", i) /\ StartsAtIgnoreCase(s, tag, j)
        THEN Find(s, ">", j + Len(tag))
        ELSE 0

\* open_tag_re.search(s, pos): <<start, position of ">">>, <<>> if no match
SearchOpenTag(s, tag, pos) ==
    LET hits == {i \in pos..Len(s) : OpenTagAt(s, tag, i) # 0}
    IN  IF hits = {} THEN <<>> ELSE <<Min(hits), OpenTagAt(s, tag, Min(hits))>>

\* "</\s*TAG\s*>" (IGNORECASE) matched at position i: the position of its ">", 0 if none
CloseTagAt(s, tag, i) ==
    LET j == SkipSpaces(s, i + 2)
        k == SkipSpaces(s, j + Len(tag))
    IN  IF StartsAt(s, "</", i) /\ StartsAtIgnoreCase(s, tag, j) /\ StartsAt(s, ">", k)
        THEN k
        ELSE 0

\* the search falling back to the end of the text when no closing tag follows
SearchCloseTagOrEnd(s, tag, pos) ==
    LET hits == {i \in pos..Len(s) : CloseTagAt(s, tag, i) # 0}
    IN  IF hits = {} THEN <<Len(s) + 1, Len(s)>> ELSE <<Min(hits), CloseTagAt(s, tag, Min(hits))>>

\* close_tag_re.search(s, pos): <<start, position of ">">>, <<>> if no match
SearchCloseTag(s, tag, pos) ==
    LET hits == {i \in pos..Len(s) : CloseTagAt(s, tag, i) # 0}
    IN  IF hits = {} THEN <<>> ELSE <<Min(hits), CloseTagAt(s, tag, Min(hits))>>

\* the default indentation, twelve spaces
DefaultIndent == "            "

\* the end of the longest run of spaces and tabs starting at i
RECURSIVE SkipBlanks(_, _)
SkipBlanks(s, i) == IF i <= Len(s) /\ Ch(s, i) \in {" ", "\t"} THEN SkipBlanks(s, i + 1) ELSE i

\* the indentation taken one level deeper than the one found
InferIndentDeeper(inner) ==
    LET hits == {i \in 1..Len(inner) :
                    /\ Ch(inner, i) = "\n"
                    /\ SkipBlanks(inner, i + 1) > i + 1
                    /\ SkipBlanks(inner, i + 1) <= Len(inner)
                    /\ ~IsSpace(Ch(inner, SkipBlanks(inner, i + 1)))}
    IN  IF hits = {} THEN DefaultIndent
        ELSE SubSeq(inner, Min(hits) + 1, SkipBlanks(inner, Min(hits) + 1) - 1) \o "  "

\* re.search(r"\n([ \t]+)\S", inner): group 1, or the default when there is no match
InferIndent(inner) ==
    LET hits == {i \in 1..Len(inner) :
                    /\ Ch(inner, i) = "\n"
                    /\ SkipBlanks(inner, i + 1) > i + 1
                    /\ SkipBlanks(inner, i + 1) <= Len(inner)
                    /\ ~IsSpace(Ch(inner, SkipBlanks(inner, i + 1)))}
    IN  IF hits = {} THEN DefaultIndent
        ELSE SubSeq(inner, Min(hits) + 1, SkipBlanks(inner, Min(hits) + 1) - 1)

\* where a patch lands: [found, open_start, open_end, close_start, close_end], with
\* open_end the position of the ">" of the opening tag and close_start the position
\* of the "<" of the closing tag
Locate(s, section_id, tag) ==
    LET start_anchor == Find(s, Anchor(section_id), 1)
        m_open == IF start_anchor = 0 THEN <<>> ELSE SearchOpenTag(s, tag, start_anchor)
        m_close == IF m_open = <<>> THEN <<>> ELSE SearchCloseTag(s, tag, m_open[2] + 1)
    IN  IF m_close = <<>>
        THEN [found |-> FALSE, start_anchor |-> start_anchor]
        ELSE [found |-> TRUE, start_anchor |-> start_anchor,
              open_start |-> m_open[1], open_end |-> m_open[2],
              close_start |-> m_close[1], close_end |-> m_close[2]]

\* the splice resuming after the closing tag's first character
SpliceAfterCloseStart(s, open_end, close_start, new) ==
    SubSeq(s, 1, open_end) \o new \o SubSeq(s, close_start + 1, Len(s))

\* html[:open_end] + new + html[close_start:]
Splice(s, open_end, close_start, new) ==
    SubSeq(s, 1, open_end) \o new \o SubSeq(s, close_start, Len(s))

\* "\n".join(indent + line for line in inner_lines)
IndentLines(indent, inner_lines) ==
    Join([i \in 1..Len(inner_lines) |-> indent \o inner_lines[i]], "\n")

replace_section_list(s, section_id, list_tag, new_inner) ==
    LET loc == Locate(s, section_id, list_tag)
        current_inner == SubSeq(s, loc.open_end + 1, loc.close_start - 1)
        indent == InferIndent(current_inner)
        inner_lines == SplitLines(new_inner)
        new_inner_indented ==
            IF inner_lines # <<>>
            THEN "\n" \o indent \o "<br>\n" \o IndentLines(indent, inner_lines) \o "\n"
            ELSE "\n" \o indent \o "<br>\n"
    IN  IF ~loc.found THEN s
        ELSE Splice(s, loc.open_end, loc.close_start, new_inner_indented)

replace_text_after_section(s, section_id, tag, new_text) ==
    LET loc == Locate(s, section_id, tag)
        existing_inner == SubSeq(s, loc.open_end + 1, loc.close_start - 1)
        indent == InferIndent(existing_inner)
    IN  IF ~loc.found THEN s
        ELSE Splice(s, loc.open_end, loc.close_start, "\n" \o indent \o new_text \o "\n")

(***************************************************************************)
(* Header/profile substitutions of process_workbook_to_html                *)
(***************************************************************************)
OctDigits == "01234567"

\* chr(0o100 + n) for n in 0..63; the grave accent is written "\\x60" and the
\* control character DEL "\\x7f"
Chr100(n) ==
    IF n < 32 THEN Ch("@ABCDEFGHIJKLMNOPQRSTUVWXYZ[\\]^_", n + 1)
    ELSE IF n = 32 THEN "\\x60"
    ELSE IF n = 63 THEN "\\x7f"
    ELSE Ch("abcdefghijklmnopqrstuvwxyz{|}~", n - 32)

OctValue(c) == (CHOOSE d \in 1..8 : Ch(OctDigits, d) = c) - 1

\* the replacement template rf"\1{value}...": re parses "\1" together with the
\* digits that follow it.  [ok |-> FALSE] is re.error (invalid group reference);
\* otherwise text is what follows group 1 in the output.
TemplateAfterGroup1(value) ==
    IF value = "" \/ ~InStr(Ch(value, 1), Digits) THEN [ok |-> TRUE, text |-> value]
    ELSE IF Len(value) >= 2 /\ InStr(Ch(value, 1), OctDigits) /\ InStr(Ch(value, 2), OctDigits)
    THEN LET n == 8 * OctValue(Ch(value, 1)) + OctValue(Ch(value, 2))
         IN  [ok |-> TRUE,
              text |-> Chr100(n) \o SubSeq(value, 3, Len(value))]
    ELSE [ok |-> FALSE]

\* re.sub(r"(OPEN)(.*?)(CLOSE)", ..., count=1): the leftmost OPEN that has a CLOSE
\* after it on the same line, and the nearest such CLOSE; <<>> if there is none
LazyMatch(s, open, close) ==
    LET CloseFor(i) ==
            {j \in (i + Len(open))..Len(s) :
                /\ StartsAt(s, close, j)
                /\ ~Contains(SubSeq(s, i + Len(open), j - 1), "\n")}
        hits == {i \in 1..Len(s) : StartsAt(s, open, i) /\ CloseFor(i) # {}}
    IN  IF hits = {} THEN <<>> ELSE <<Min(hits), Min(CloseFor(Min(hits)))>>

\* the text with the span between OPEN and CLOSE of the match replaced by middle
SubOnce(s, open, close, middle) ==
    LET m == LazyMatch(s, open, close)
    IN  IF m = <<>> THEN s
        ELSE SubSeq(s, 1, m[1] + Len(open) - 1) \o middle \o SubSeq(s, m[2], Len(s))

H2Open == "<h2 class=\"white\">"

H3Open == "<h3 class=\"white\">"

EmailOpen == "<h5 class=\"white\">E-mail:"

IeeeOpen == "<a href=\""

IeeeClose == "\" class=\"blue\">IEEE author homepage</a>"

\* one "if value: html = re.sub(...)" with the template rf"\1{value}\N"
SubField(res, value, open, close) ==
    IF ~res.ok \/ value = "" THEN res
    ELSE IF ~TemplateAfterGroup1(value).ok THEN [ok |-> FALSE]
    ELSE [ok |-> TRUE, html |-> SubOnce(res.html, open, close, TemplateAfterGroup1(value).text)]

\* the header/profile branch: [ok |-> FALSE] when a re.sub raises
HeaderSubs(s, rows) ==
    LET row == rows[1]
        name_cn == Get(row, OrEmpty(find_col(row, <<"name_cn", "\\u59d3\\u540d">>)))
        name_en == Get(row, OrEmpty(find_col(row, <<"name_en", "\\u82f1\\u6587\\u540d">>)))
        email == Get(row, OrEmpty(find_col(row, <<"email">>)))
        ieee == Get(row, OrEmpty(find_col(row, <<"ieee", "ieee link">>)))
        r1 == SubField([ok |-> TRUE, html |-> s], name_cn, H2Open, "</h2>")
        r2 == SubField(r1, name_en, H3Open, "</h3>")
        r3 == IF ~r2.ok \/ email = "" THEN r2
              ELSE [ok |-> TRUE, html |-> SubOnce(r2.html, EmailOpen, "</h5>", " " \o email)]
    IN  SubField(r3, ieee, IeeeOpen, IeeeClose)

\* whether the branch runs at least one substitution
HeaderHasValue(rows) ==
    LET row == rows[1]
    IN  \/ Get(row, OrEmpty(find_col(row, <<"name_cn", "\\u59d3\\u540d">>))) # ""
        \/ Get(row, OrEmpty(find_col(row, <<"name_en", "\\u82f1\\u6587\\u540d">>))) # ""
        \/ Get(row, OrEmpty(find_col(row, <<"email">>))) # ""
        \/ Get(row, OrEmpty(find_col(row, <<"ieee", "ieee link">>))) # ""

(***************************************************************************)
(* Section classifier: the chain of membership tests on the sheet title     *)
(***************************************************************************)
Classify(sheet_name_norm) ==
    IF sheet_name_norm \in {"biography", "bio", "\\u4f20\\u8bb0", "\\u7b80\\u5386"} THEN "Biography"
    ELSE IF sheet_name_norm \in {"news", "\\u6700\\u65b0\\u52a8\\u6001", "\\u52a8\\u6001"} THEN "News"
    ELSE IF sheet_name_norm \in {"featured article", "featured", "\\u7cbe\\u9009\\u6587\\u7ae0"} THEN "Featured Article"
    ELSE IF sheet_name_norm \in {"book chapter", "book chapters", "\\u56fe\\u4e66\\u7ae0\\u8282"} THEN "Book Chapter"
    ELSE IF sheet_name_norm \in {"refereed journal papers", "journal", "journals", "\\u671f\\u520a\\u8bba\\u6587"}
         THEN "Refereed Journal Papers"
    ELSE IF sheet_name_norm \in {"refereed conference papers", "refereed conference paper",
                                 "conference", "conferences", "\\u4f1a\\u8bae\\u8bba\\u6587", "conf",
                                 "conference papers", "refereed conferences", "\\u4f1a\\u8bae"}
         THEN "Refereed Conference Papers"
    ELSE IF sheet_name_norm \in {"patent", "patents", "\\u4e13\\u5229"} THEN "Patent"
    ELSE IF sheet_name_norm \in {"award", "awards", "award & honors", "honors", "\\u8363\\u8a89", "\\u5956\\u9879"}
         THEN "Award"
    ELSE IF sheet_name_norm \in {"correspondence", "contact", "contacts", "\\u8054\\u7cfb\\u65b9\\u5f0f", "\\u8054\\u7cfb", "\\u901a\\u8baf"}
         THEN "Correspondence"
    ELSE IF sheet_name_norm \in {"research interests", "interests", "\\u7814\\u7a76\\u5174\\u8da3"}
         THEN "Research Interests"
    ELSE IF sheet_name_norm \in {"header", "profile", "\\u9876\\u90e8", "\\u57fa\\u672c\\u4fe1\\u606f"} THEN "Header"
    ELSE "Unknown"

ListCategories == {"News", "Featured Article", "Book Chapter", "Refereed Journal Papers",
                   "Refereed Conference Papers", "Patent", "Award", "Correspondence"}

\* the (section_id, tag, new_inner) a list sheet appends to updates
ListUpdate(category, rows) ==
    IF category = "News" THEN <<"News", "ul", build_news_items(rows)>>
    ELSE IF category = "Featured Article" THEN <<category, "ol", build_featured_items(rows)>>
    ELSE IF category = "Book Chapter" THEN <<category, "ol", build_book_chapter_items(rows)>>
    ELSE IF category = "Refereed Journal Papers"
         THEN <<category, "ol", build_journal_items_with_trailing_br(rows)>>
    ELSE IF category = "Refereed Conference Papers"
         THEN <<category, "ol", build_conference_items_with_trailing_br(rows)>>
    ELSE IF category = "Patent" THEN <<"Patent", "ol", build_patent_items(rows)>>
    ELSE IF category = "Award" THEN <<"Award", "ul", build_award_items(rows)>>
    ELSE <<"Correspondence", "ul", build_correspondence(rows)>>

(***************************************************************************)
(* The run: main and process_workbook_to_html.                             *)
(*                                                                         *)
(* env is what the run is given: whether the two paths exist, whether      *)
(* load_workbook and read_text succeed, the workbook (a sequence of sheets, *)
(* each a title and a cell grid) and the text of the HTML file.  disk is    *)
(* the HTML file's content.  idx is the worksheet loop's position and upd the *)
(* patch loops'.  applied records, for the order of changes:    *)
(* list_from[j] / text_from[j], the sheet that produced updates[j] /        *)
(* text_updates[j], and log, one <<kind, sheet>> per change of html.       *)
(***************************************************************************)
MaxSheets == 2

SheetCatalogue ==
    << [title |-> "News",
        grid |-> << <<StrCell("date"), StrCell("text")>>,
                    <<StrCell("2024-01-01"), StrCell("Joined Lab")>> >>],
       [title |-> " NEWS ",
        grid |-> << <<StrCell("Text")>>, <<StrCell("Moved")>> >>],
       [title |-> "news",
        grid |-> << <<NoneCell, NoneCell>>, <<StrCell("date"), StrCell("text")>>,
                    <<NoneCell, StrCell(" ")>> >>],
       [title |-> "Awards",
        grid |-> << <<StrCell("year"), StrCell("title"), StrCell("note")>>,
                    <<IntCell(2023), StrCell("Best Paper"), StrCell("ACM")>> >>],
       [title |-> "Research  Interests",
        grid |-> << <<StrCell("interests")>>, <<StrCell("Vision")>> >>],
       [title |-> "Profile",
        grid |-> << <<StrCell("name_en"), StrCell("email")>>,
                    <<StrCell("Y. Li"), StrCell("a@b.c")>> >>],
       [title |-> "Header",
        grid |-> << <<StrCell("name_cn")>>, <<IntCell(1)>> >>],
       [title |-> "Patents",
        grid |-> << <<StrCell("title"), StrCell("state")>>,
                    <<StrCell("1. Widget"), StrCell("\\u6388\\u6743")>> >>],
       [title |-> "Bio",
        grid |-> << <<StrCell("text")>>, <<StrCell("Born")>> >>],
       [title |-> "profile",
        grid |-> << <<NoneCell>>, <<StrCell("  ")>> >>] >>

\* every worksheet list of at most MaxSheets sheets of the catalogue
Workbooks ==
    UNION {[1..n -> {SheetCatalogue[i] : i \in 1..Len(SheetCatalogue)}] : n \in 0..MaxSheets}

Documents ==
    { "<h3 class=\"white\">Name</h3>\n<h5 class=\"white\">E-mail: x@y</h5>\n"
        \o "<div id=\"News\"></div>\n<ul>\n  <li>old</li>\n</ul>\n"
        \o "<div id=\"Award\"></div>\n<ul>\n</ul>\n"
        \o "<div id=\"Research Interests\"></div>\n<h5>\n    Old\n</h5>\n"
        \o "<div id=\"Patent\"></div>\n<ol></ol>\n",
      "<div id=\"Award\"></div>\n<div id=\"News\"></div>\n<ul>\n\t<li>old</li>\n</ul>\n"
        \o "<div id=\"Research Interests\"></div><h5></h5>",
      "<h2 class=\"white\">N</h2><ul><li>no anchors</li></ul>" }

Faults == {"none", "no_xlsx", "no_html", "bad_xlsx", "bad_html"}

Init ==
    /\ env \in [fault : Faults, wb : Workbooks, doc : Documents]
    /\ disk = env.doc
    /\ pc = "main"
    /\ html = ""
    /\ updates = <<>>
    /\ text_updates = <<>>
    /\ idx = 0
    /\ upd = 0
    /\ writes = 0
    /\ applied = [list_from |-> <<>>, text_from |-> <<>>, log |-> <<>>]
    /\ base = ""
    /\ fn = "run" /\ inp = <<>> /\ out = <<>>

\* main: sys.exit(1) when either path does not exist
CheckPaths ==
    /\ pc = "main"
    /\ pc' = IF env.fault \in {"no_xlsx", "no_html"} THEN "exit1" ELSE "load_workbook"
    /\ UNCHANGED <<env, disk, html, updates, text_updates, idx, upd, writes, applied, base>>
    /\ UNCHANGED fnVars

\* wb = load_workbook(...), which raises on an unreadable workbook
LoadWorkbook ==
    /\ pc = "load_workbook"
    /\ pc' = IF env.fault = "bad_xlsx" THEN "raised" ELSE "read_text"
    /\ UNCHANGED <<env, disk, html, updates, text_updates, idx, upd, writes, applied, base>>
    /\ UNCHANGED fnVars

\* ReadHtml with the read error swallowed: the run goes on with an empty text
ReadHtmlSwallow ==
    /\ pc = "read_text"
    /\ pc' = "sheets"
    /\ html' = IF env.fault = "bad_html" THEN "" ELSE disk
    /\ idx' = 1
    /\ updates' = <<>>
    /\ text_updates' = <<>>
    /\ UNCHANGED <<env, disk, upd, writes, applied, base>>
    /\ UNCHANGED fnVars

\* html = html_path.read_text(...), which raises on an unreadable file
ReadHtml ==
    /\ pc = "read_text"
    /\ IF env.fault = "bad_html"
       THEN pc' = "raised" /\ UNCHANGED <<html, idx>>
       ELSE pc' = "sheets" /\ html' = disk /\ idx' = 1
    /\ updates' = <<>>
    /\ text_updates' = <<>>
    /\ UNCHANGED <<env, disk, upd, writes, applied, base>>
    /\ UNCHANGED fnVars

\* the emptiness test made only where the first row is read
SkipSheetHeaderOnly(rows, category) ==
    \/ category \in {"Biography", "Unknown"}
    \/ rows = <<>> /\ category \notin ListCategories \cup {"Research Interests"}

\* "if not rows: continue" and the explicit skip of the biography sheet; a sheet of
\* no known category falls through the loop body
SkipSheet(rows, category) == rows = <<>> \/ category \in {"Biography", "Unknown"}

\* one iteration of "for ws in wb.worksheets"
ProcessSheet ==
    /\ pc = "sheets"
    /\ idx <= Len(env.wb)
    /\ LET ws == env.wb[idx]
           sheet_name_norm == normalize_name(ws.title)
           rows == read_rows_as_dicts(ws.grid)
           category == Classify(sheet_name_norm)
           subs == HeaderSubs(html, rows)
       IN  IF SkipSheet(rows, category)
           THEN UNCHANGED <<html, updates, text_updates, applied>> /\ pc' = pc /\ idx' = idx + 1
           ELSE IF category \in ListCategories
           THEN /\ updates' = Append(updates, ListUpdate(category, rows))
                /\ applied' = [applied EXCEPT !.list_from = Append(@, idx)]
                /\ UNCHANGED <<html, text_updates>> /\ pc' = pc /\ idx' = idx + 1
           ELSE IF category = "Research Interests"
           THEN /\ text_updates' = Append(text_updates,
                                          <<"Research Interests", "h5", build_text_block(rows)>>)
                /\ applied' = [applied EXCEPT !.text_from = Append(@, idx)]
                /\ UNCHANGED <<html, updates>> /\ pc' = pc /\ idx' = idx + 1
           ELSE IF ~subs.ok
           THEN UNCHANGED <<html, updates, text_updates, applied, idx>> /\ pc' = "raised"
           ELSE /\ html' = subs.html
                /\ applied' = IF HeaderHasValue(rows)
                              THEN [applied EXCEPT !.log = Append(@, <<"header", idx>>)]
                              ELSE applied
                /\ UNCHANGED <<updates, text_updates>> /\ pc' = pc /\ idx' = idx + 1
    /\ UNCHANGED <<env, disk, upd, writes, base>>
    /\ UNCHANGED fnVars

\* the worksheet loop ends; base is the text the patches start from
EndSheets ==
    /\ pc = "sheets"
    /\ idx > Len(env.wb)
    /\ pc' = "lists"
    /\ upd' = 1
    /\ base' = html
    /\ UNCHANGED <<env, disk, html, updates, text_updates, idx, writes, applied>>
    /\ UNCHANGED fnVars

\* the loop walking its list backwards
IterIndexReversed(seq, i) == Len(seq) + 1 - i

\* the loop taking the first element at every step
IterIndexFirst(seq, i) == 1

\* "for ... in seq": the element taken at step i
IterIndex(seq, i) == i

\* one iteration of "for section_id, tag, new_inner in updates"
ApplyListUpdate ==
    /\ pc = "lists"
    /\ upd <= Len(updates)
    /\ LET j == IterIndex(updates, upd)
       IN  /\ html' = replace_section_list(html, updates[j][1], updates[j][2], updates[j][3])
           /\ applied' = [applied EXCEPT !.log = Append(@, <<"list", applied.list_from[j]>>)]
    /\ upd' = upd + 1
    /\ UNCHANGED <<pc, env, disk, updates, text_updates, idx, writes, base>>
    /\ UNCHANGED fnVars

EndLists ==
    /\ pc = "lists"
    /\ upd > Len(updates)
    /\ pc' = "texts"
    /\ upd' = 1
    /\ UNCHANGED <<env, disk, html, updates, text_updates, idx, writes, applied, base>>
    /\ UNCHANGED fnVars

\* one iteration of "for section_id, tag, new_text in text_updates"
ApplyTextUpdate ==
    /\ pc = "texts"
    /\ upd <= Len(text_updates)
    /\ LET j == IterIndex(text_updates, upd)
       IN  /\ html' = replace_text_after_section(html, text_updates[j][1], text_updates[j][2],
                                                 text_updates[j][3])
           /\ applied' = [applied EXCEPT !.log = Append(@, <<"text", applied.text_from[j]>>)]
    /\ upd' = upd + 1
    /\ UNCHANGED <<pc, env, disk, updates, text_updates, idx, writes, base>>
    /\ UNCHANGED fnVars

\* html_path.write_text(html, ...)
WriteHtml ==
    /\ pc = "texts"
    /\ upd > Len(text_updates)
    /\ disk' = html
    /\ writes' = writes + 1
    /\ pc' = "done"
    /\ UNCHANGED <<env, html, updates, text_updates, idx, upd, applied, base>>
    /\ UNCHANGED fnVars

Next ==
    \/ CheckPaths
    \/ LoadWorkbook
    \/ ReadHtml
    \/ ProcessSheet
    \/ EndSheets
    \/ ApplyListUpdate
    \/ EndLists
    \/ ApplyTextUpdate
    \/ WriteHtml

Spec == Init /\ [][Next]_vars

(***************************************************************************)
(* Claims about the run (specification Spec)                               *)
(***************************************************************************)
\* the patches collected in the run, list patches first, as the run applies them
Patches ==
    [j \in 1..Len(updates) |-> <<"list">> \o updates[j]]
    \o [j \in 1..Len(text_updates) |-> <<"text">> \o text_updates[j]]

ApplyPatch(s, p) ==
    IF p[1] = "list" THEN replace_section_list(s, p[2], p[3], p[4])
    ELSE replace_text_after_section(s, p[2], p[3], p[4])

\* the text after the patches ps[order[1]], ps[order[2]], ... applied to s in turn
RECURSIVE ApplyInOrder(_, _, _)
ApplyInOrder(s, ps, order) ==
    IF order = <<>> THEN s
    ELSE ApplyInOrder(ApplyPatch(s, ps[Head(order)]), ps, Tail(order))

Orders(n) == {f \in [1..n -> 1..n] : \A a, b \in 1..n : f[a] = f[b] => a = b}

\* every patch finds its anchor, opening and closing tag in s, the regions from the
\* anchor marker to the end of the closing tag are pairwise disjoint, and no patch's
\* new content contains the anchor marker of a patch
DisjointRegions(s, ps) ==
    /\ \A a \in 1..Len(ps) : Locate(s, ps[a][2], ps[a][3]).found
    /\ \A a, b \in 1..Len(ps) :
          a # b => \/ Locate(s, ps[a][2], ps[a][3]).close_end
                        < Locate(s, ps[b][2], ps[b][3]).start_anchor
                   \/ Locate(s, ps[b][2], ps[b][3]).close_end
                        < Locate(s, ps[a][2], ps[a][3]).start_anchor
    /\ \A a, b \in 1..Len(ps) : ~Contains(ps[a][4], Anchor(ps[b][2]))

\* C3 as stated: whatever the patches of a run, the document written is the one any
\* order of applying them to the text gives
C3_AnyOrderSameText ==
    pc = "done" =>
        \A order \in Orders(Len(Patches)) : ApplyInOrder(base, Patches, order) = disk

\* C3 amended: when every patch finds its region, the regions are pairwise disjoint
\* and no new content carries an anchor marker, the document written is the one any
\* order of applying the patches gives
C3_DisjointAnyOrderSameText ==
    (pc = "done" /\ DisjointRegions(base, Patches)) =>
        \A order \in Orders(Len(Patches)) : ApplyInOrder(base, Patches, order) = disk

\* C3 witness: a finished run of two patches with disjoint regions, both changing the text
C3_Witness ==
    /\ pc = "done"
    /\ Len(Patches) = 2
    /\ DisjointRegions(base, Patches)
    /\ ApplyPatch(base, Patches[1]) # base
    /\ ApplyPatch(base, Patches[2]) # base
    /\ disk = ApplyInOrder(base, Patches, <<2, 1>>)

KindRank(kind) == IF kind = "header" THEN 1 ELSE IF kind = "list" THEN 2 ELSE 3

\* C4 as stated: a change from an earlier worksheet is applied before a change from a
\* later worksheet
C4_SheetOrder ==
    \A a, b \in 1..Len(applied.log) :
        applied.log[a][2] < applied.log[b][2] => a < b

\* C4 amended: changes are applied by kind first (header/profile substitutions during
\* the worksheet loop, then all list patches, then all text patches) and in worksheet
\* order within one kind
C4_KindThenSheetOrder ==
    \A a, b \in 1..Len(applied.log) :
        (\/ KindRank(applied.log[a][1]) < KindRank(applied.log[b][1])
         \/ /\ applied.log[a][1] = applied.log[b][1]
            /\ applied.log[a][2] < applied.log[b][2]) => a < b

\* C4 witness: a text patch of an earlier sheet applied after a list patch of a later one
C4_Witness ==
    /\ pc = "done"
    /\ \E a, b \in 1..Len(applied.log) :
          /\ a < b
          /\ applied.log[a][1] = "list" /\ applied.log[b][1] = "text"
          /\ applied.log[a][2] > applied.log[b][2]

\* C5: the file is written at most once, only in a run whose two reads succeeded and
\* whose worksheet loop and patch loops are over; an aborted run has written nothing
\* and the file holds what it held
C5_SingleWriteAtEnd ==
    /\ writes <= 1
    /\ writes = 1 => /\ env.fault = "none"
                     /\ pc = "done"
                     /\ idx = Len(env.wb) + 1
                     /\ upd = Len(text_updates) + 1
                     /\ disk = html
    /\ writes = 0 => disk = env.doc
    /\ pc \in {"exit1", "raised"} => writes = 0
    /\ env.fault # "none" => writes = 0

\* C5 witness: a finished run that wrote a changed document
C5_Witness == pc = "done" /\ writes = 1 /\ disk # env.doc /\ Len(env.wb) = 2

\* the worksheet at position i gives no records
EmptySheet(i) == read_rows_as_dicts(env.wb[i].grid) = <<>>

\* C15: no queued patch and no applied change comes from a worksheet without records,
\* and as long as every worksheet processed so far is without records the text is the
\* document as read and nothing is queued
C15_EmptySheetContributesNothing ==
    pc \in {"sheets", "lists", "texts", "done"} =>
        /\ Len(applied.list_from) = Len(updates)
        /\ Len(applied.text_from) = Len(text_updates)
        /\ \A j \in 1..Len(applied.list_from) : ~EmptySheet(applied.list_from[j])
        /\ \A j \in 1..Len(applied.text_from) : ~EmptySheet(applied.text_from[j])
        /\ \A j \in 1..Len(applied.log) : ~EmptySheet(applied.log[j][2])
        /\ (\A i \in 1..(idx - 1) : EmptySheet(i)) =>
              /\ html = env.doc
              /\ updates = <<>> /\ text_updates = <<>>
              /\ pc = "done" => disk = env.doc

\* C15 witness: a finished run over a news sheet with a header row only and an
\* all-blank profile sheet wrote the document with its News list as it was
C15_Witness ==
    /\ pc = "done" /\ writes = 1
    /\ Len(env.wb) = 2 /\ env.wb[1].title = "news" /\ env.wb[2].title = "profile"
    /\ EmptySheet(1) /\ EmptySheet(2)
    /\ Contains(disk, "<div id=\"News\"></div>\n<ul>\n  <li>old</li>\n</ul>")
    /\ disk = env.doc

\* the run's variables, unused by the specifications of single functions
RunIdle ==
    /\ pc = "idle" /\ env = <<>> /\ disk = "" /\ html = "" /\ updates = <<>>
    /\ text_updates = <<>> /\ idx = 0 /\ upd = 0 /\ writes = 0 /\ applied = <<>> /\ base = ""

(***************************************************************************)
(* SpecPatch: replace_section_list and replace_text_after_section on        *)
(* documents put together from at most MaxPieces pieces.                    *)
(***************************************************************************)
MaxPieces == 4

DocPieces ==
    {"<div id=\"News\"></div>", "<div id=\"Award\"></div>", "< UL class=\"a\">", "<ul>",
     "</ul >", "\n  <li>x</li>\n"}

RECURSIVE Concat(_)
Concat(parts) == IF parts = <<>> THEN "" ELSE Head(parts) \o Concat(Tail(parts))

PatchDocs == {Concat(ps) : ps \in UNION {[1..n -> DocPieces] : n \in 0..MaxPieces}}

PatchInputs ==
    [doc : PatchDocs, section_id : {"News"}, tag : {"ul", "ol"},
     new : {"", "<li>a</li>\n<br>"}]

InitPatch ==
    /\ RunIdle
    /\ fn = "patch"
    /\ inp \in PatchInputs
    /\ out = <<>>

CallReplaceSectionList ==
    /\ fn = "patch" /\ out = <<>>
    /\ out' = <<"list", replace_section_list(inp.doc, inp.section_id, inp.tag, inp.new)>>
    /\ UNCHANGED <<fn, inp>>
    /\ UNCHANGED runVars

CallReplaceTextAfterSection ==
    /\ fn = "patch" /\ out = <<>>
    /\ out' = <<"text", replace_text_after_section(inp.doc, inp.section_id, inp.tag, inp.new)>>
    /\ UNCHANGED <<fn, inp>>
    /\ UNCHANGED runVars

\* replace_section_list called once more, with the same arguments, on its own result
CallReplaceSectionListAgain ==
    /\ fn = "patch" /\ out # <<>> /\ out[1] = "list"
    /\ out' = <<"list2", out[2],
                replace_section_list(out[2], inp.section_id, inp.tag, inp.new)>>
    /\ UNCHANGED <<fn, inp>>
    /\ UNCHANGED runVars

NextPatch ==
    \/ CallReplaceSectionList
    \/ CallReplaceTextAfterSection
    \/ CallReplaceSectionListAgain

SpecPatch == InitPatch /\ [][NextPatch]_vars

\* the first occurrence of the anchor marker, 0 if absent
AnchorAt(doc, section_id) == Find(doc, Anchor(section_id), 1)

\* the first opening tag that starts after the anchor marker: <<start, its ">">>
OpenAfterAnchor(doc, section_id, tag) ==
    LET from == AnchorAt(doc, section_id) + Len(Anchor(section_id))
        hits == {i \in from..Len(doc) : OpenTagAt(doc, tag, i) # 0}
    IN  IF AnchorAt(doc, section_id) = 0 \/ hits = {} THEN <<>>
        ELSE <<Min(hits), OpenTagAt(doc, tag, Min(hits))>>

\* the next closing tag after that opening tag: the position of its "<", 0 if none
CloseAfterOpen(doc, section_id, tag) ==
    LET o == OpenAfterAnchor(doc, section_id, tag)
        hits == IF o = <<>> THEN {} ELSE {i \in (o[2] + 1)..Len(doc) : CloseTagAt(doc, tag, i) # 0}
    IN  IF hits = {} THEN 0 ELSE Min(hits)

\* C1: when the anchor, the first opening tag after it and the next closing tag exist,
\* the result keeps the document up to and including that opening tag and from that
\* closing tag onward; only what lies between them is changed
C1_OnlyInnerChanges ==
    (fn = "patch" /\ out # <<>> /\ CloseAfterOpen(inp.doc, inp.section_id, inp.tag) # 0) =>
        LET o == OpenAfterAnchor(inp.doc, inp.section_id, inp.tag)
            c == CloseAfterOpen(inp.doc, inp.section_id, inp.tag)
            tail == Len(inp.doc) - c + 1
            res == out[2]
        IN  /\ Len(res) >= o[2] + tail
            /\ SubSeq(res, 1, o[2]) = SubSeq(inp.doc, 1, o[2])
            /\ SubSeq(res, Len(res) - tail + 1, Len(res)) = SubSeq(inp.doc, c, Len(inp.doc))

\* C1 witness: a list patched after the anchor while the document starts with another
\* list of the same tag name, which is kept
C1_Witness ==
    /\ fn = "patch" /\ out # <<>> /\ out[1] = "list"
    /\ OpenTagAt(inp.doc, inp.tag, 1) # 0
    /\ AnchorAt(inp.doc, inp.section_id) > 1
    /\ CloseAfterOpen(inp.doc, inp.section_id, inp.tag) # 0
    /\ out[2] # inp.doc

\* C2: the document comes back unchanged when the anchor marker is absent, or no
\* opening tag of the tag name follows it, or no closing tag follows that opening tag
C2_NoTargetNoChange ==
    (fn = "patch" /\ out # <<>> /\ CloseAfterOpen(inp.doc, inp.section_id, inp.tag) = 0) =>
        out[2] = inp.doc

\* C2 witness: the anchor and an opening tag are there, the closing tag is not
C2_Witness ==
    /\ fn = "patch" /\ out # <<>>
    /\ OpenAfterAnchor(inp.doc, inp.section_id, inp.tag) # <<>>
    /\ CloseAfterOpen(inp.doc, inp.section_id, inp.tag) = 0
    /\ Contains(inp.doc, "</ul >")
    /\ out[2] = inp.doc

\* the new inner HTML contains no closing tag of the tag name
NoClosingTagIn(new, tag) == \A i \in 1..Len(new) : CloseTagAt(new, tag, i) = 0

\* C14: with a new inner HTML that contains no closing tag of the tag name, the second
\* application of replace_section_list with the same arguments gives the document the
\* first application gave
C14_TwiceIsOnce ==
    (fn = "patch" /\ out # <<>> /\ out[1] = "list2" /\ NoClosingTagIn(inp.new, inp.tag)) =>
        out[3] = out[2]

\* C14 witness: a list whose items are indented by two blanks is replaced, and replaced
\* again, with the same two blanks and a single leading <br>
C14_Witness ==
    /\ fn = "patch" /\ out # <<>> /\ out[1] = "list2"
    /\ Contains(inp.doc, "\n  <li>x</li>\n")
    /\ out[2] # inp.doc
    /\ Contains(out[3], ">\n  <br>\n  <li>a</li>\n  <br>\n</ul >")

(***************************************************************************)
(* SpecRows: read_rows_as_dicts on grids of at most MaxRows rows.           *)
(***************************************************************************)
MaxRows == 3

GridCells == {NoneCell, StrCell(" "), StrCell("a "), IntCell(7)}

GridRows == [1..2 -> GridCells]

Grids == UNION {[1..n -> GridRows] : n \in 0..MaxRows}

InitRows ==
    /\ RunIdle
    /\ fn = "rows"
    /\ inp \in Grids
    /\ out = <<"none">>

CallReadRows ==
    /\ fn = "rows" /\ out = <<"none">>
    /\ out' = <<"records", read_rows_as_dicts(inp)>>
    /\ UNCHANGED <<fn, inp>>
    /\ UNCHANGED runVars

NextRows == CallReadRows

SpecRows == InitRows /\ [][NextRows]_vars

\* the rows strictly after the first non-blank row that have a non-blank cell
DataRowIdx(grid) ==
    {i \in 1..Len(grid) : /\ RowNonBlank(grid[i])
                          /\ \E h \in 1..(i - 1) : RowNonBlank(grid[h])}

\* C6: one record per non-blank row strictly after the first non-blank row, in row
\* order; no record for a grid without a non-blank row
C6_OneRecordPerDataRow ==
    (fn = "rows" /\ out[1] = "records") =>
        /\ Len(out[2]) = Cardinality(DataRowIdx(inp))
        /\ \A i \in DataRowIdx(inp) :
              out[2][Cardinality({j \in DataRowIdx(inp) : j <= i})]
                  = MakeEntry(Headers(inp[HeaderIdx(inp)]), inp[i])
        /\ (\A i \in 1..Len(inp) : ~RowNonBlank(inp[i])) => out[2] = <<>>

\* C6 witness: a blank row, then the header row, then one data row
C6_Witness ==
    /\ fn = "rows" /\ out[1] = "records"
    /\ Len(inp) = 3 /\ ~RowNonBlank(inp[1]) /\ RowNonBlank(inp[2]) /\ RowNonBlank(inp[3])
    /\ Len(out[2]) = 1

(***************************************************************************)
(* SpecFindCol: find_col on records of at most MaxKeys fields.              *)
(***************************************************************************)
MaxKeys == 3

FieldNames == {"Title", "TITLE", "Subtitle", "title_cn", "\\u9898\\u76ee", "Year"}

KeySeqs ==
    UNION {{ks \in [1..n -> FieldNames] : \A a, b \in 1..n : ks[a] = ks[b] => a = b}
           : n \in 1..MaxKeys}

Entries == {[i \in 1..Len(ks) |-> <<ks[i], "v">>] : ks \in KeySeqs}

TitleCandidates == <<"title", "\\u9898\\u76ee">>

InitFindCol ==
    /\ RunIdle
    /\ fn = "find_col"
    /\ inp \in Entries
    /\ out = <<"none">>

CallFindCol ==
    /\ fn = "find_col" /\ out = <<"none">>
    /\ out' = <<"key", find_col(inp, TitleCandidates)>>
    /\ UNCHANGED <<fn, inp>>
    /\ UNCHANGED runVars

NextFindCol == CallFindCol

SpecFindCol == InitFindCol /\ [][NextFindCol]_vars

\* C7 as stated: a record with a field named "Title" resolves to "Title"
C7_TitleReturned ==
    (fn = "find_col" /\ out[1] = "key" /\ HasKey(inp, "Title")) => out[2] = <<"Title">>

\* the last field of the record whose name is "title" up to case
LastTitleKey(entry) ==
    entry[CHOOSE i \in 1..Len(entry) :
              /\ Lower(entry[i][1]) = "title"
              /\ \A j \in (i + 1)..Len(entry) : Lower(entry[j][1]) # "title"][1]

\* C7 amended: a record with a field named "Title" resolves to a field named "title"
\* up to case, never to a field that only contains "title": to "Title" itself unless a
\* later field differs from it only in case, and then to the last such field
C7_ExactTitleReturned ==
    (fn = "find_col" /\ out[1] = "key" /\ HasKey(inp, "Title")) =>
        /\ out[2] = <<LastTitleKey(inp)>>
        /\ (\A j \in 1..Len(inp) : Lower(inp[j][1]) = "title" => inp[j][1] = "Title")
              => out[2] = <<"Title">>

\* C7 witness: "Title" is returned although a field containing "title" comes first
C7_Witness ==
    /\ fn = "find_col" /\ out[1] = "key"
    /\ Len(inp) >= 2 /\ inp[1][1] = "Subtitle" /\ HasKey(inp, "Title")
    /\ out[2] = <<"Title">>

\* the fields of the record equal to candidate c ignoring case
ExactMatches(entry, c) == {i \in 1..Len(entry) : Lower(entry[i][1]) = Lower(c)}

\* the fields of the record equal to some candidate ignoring case
AllExactMatches(entry) ==
    UNION {ExactMatches(entry, TitleCandidates[c]) : c \in 1..Len(TitleCandidates)}

\* C13 as stated: of several fields matching in the exact pass, the one that comes
\* first in the record is returned
C13_FirstHeaderWins ==
    (fn = "find_col" /\ out[1] = "key" /\ Cardinality(AllExactMatches(inp)) >= 2) =>
        out[2] = <<inp[Min(AllExactMatches(inp))][1]>>

\* C13 amended: of several fields matching in the exact pass, the one returned matches
\* the earliest candidate of the list that has a match, and is the last field of the
\* record among those matching that candidate
C13_FirstCandidateLastHeader ==
    (fn = "find_col" /\ out[1] = "key" /\ Cardinality(AllExactMatches(inp)) >= 2) =>
        LET c == Min({d \in 1..Len(TitleCandidates) : ExactMatches(inp, TitleCandidates[d]) # {}})
            hits == ExactMatches(inp, TitleCandidates[c])
        IN  out[2] = <<inp[CHOOSE i \in hits : \A j \in hits : j <= i][1]>>

\* C13 witness: the field matching the second candidate comes first in the record and
\* the field matching the first candidate is returned
C13_Witness ==
    /\ fn = "find_col" /\ out[1] = "key"
    /\ Len(inp) = 2 /\ inp[1][1] = TitleCandidates[2] /\ inp[2][1] = "Title"
    /\ out[2] = <<"Title">>

(***************************************************************************)
(* SpecAuthors: highlight_authors on author strings of at most MaxAuthors  *)
(* comma-separated tokens.                                                 *)
(***************************************************************************)
MaxAuthors == 3

AuthorNames == {"Alice Lee", " Yuchen Li", "Y. Li "}

AuthorStrings ==
    {Join(ts, ",") : ts \in UNION {[1..n -> AuthorNames] : n \in 0..MaxAuthors}}

OrderValues ==
    {<<>>, <<"">>, <<"0">>, <<"1">>, <<" 2 ">>, <<"3">>, <<"4">>, <<"5">>, <<"-1">>,
     <<"2.0">>, <<"x">>}

InitAuthors ==
    /\ RunIdle
    /\ fn = "authors"
    /\ inp \in [authors : AuthorStrings, order : OrderValues]
    /\ out = <<"none">>

CallHighlightAuthors ==
    /\ fn = "authors" /\ out = <<"none">>
    /\ out' = <<"html", highlight_authors(inp.authors, inp.order)>>
    /\ UNCHANGED <<fn, inp>>
    /\ UNCHANGED runVars

NextAuthors == CallHighlightAuthors

SpecAuthors == InitAuthors /\ [][NextAuthors]_vars

\* the comma-separated tokens of an author string, trimmed; none for the empty string
TokensOf(authors) ==
    IF authors = "" THEN <<>>
    ELSE [i \in 1..Len(Split(authors, ",")) |-> Strip(Split(authors, ",")[i])]

\* the position the indicator names: <<k>> when it is present and parses to an integer
PositionOf(order) == IF order = <<>> THEN <<>> ELSE ParseInt(order[1])

\* C8: an indicator that parses to k with 1 <= k <= n wraps the k-th token and no
\* other; any other indicator gives the global name-pattern highlighting
C8_PositionOrGlobal ==
    (fn = "authors" /\ out[1] = "html") =>
        LET toks == TokensOf(inp.authors)
            pos == PositionOf(inp.order)
        IN  IF pos # <<>> /\ 1 <= pos[1] /\ pos[1] <= Len(toks)
            THEN /\ Len(Split(out[2], ", ")) = Len(toks)
                 /\ \A i \in 1..Len(toks) :
                       Split(out[2], ", ")[i] =
                           IF i = pos[1]
                           THEN "<font class=\"deepblue\">" \o toks[i] \o "</font>"
                           ELSE toks[i]
            ELSE out[2] = highlight_name_globally(inp.authors)

\* C8 witness: the second of three tokens is wrapped, the target name elsewhere is not
C8_Witness ==
    /\ fn = "authors" /\ out[1] = "html"
    /\ inp.authors = " Yuchen Li,Alice Lee,Y. Li " /\ inp.order = <<" 2 ">>
    /\ out[2] = "Yuchen Li, <font class=\"deepblue\">Alice Lee</font>, Y. Li"

(***************************************************************************)
(* SpecItems: build_patent_items and build_award_items on one record with  *)
(* an optional visibility field, a title and an optional state field.      *)
(***************************************************************************)
VisibleFields ==
    {<<>>} \cup {<<<<k, v>>>> : k \in {"Visible", "visable"},
                                v \in {"", "1", "0", "True", "TRUE", "no", "\\u662f", "yes"}}

TitleFields == {<<<<"Title", v>>>> : v \in {"", "1. W"}}

StateFields ==
    {<<>>} \cup {<<<<"State", v>>>> :
                    v \in {"", "\\u6388\\u6743", "\\u5df2\\u6388\\u6743", "\\u516c\\u5f00", "\\u516c\\u5f00\\u5f85\\u6388\\u6743", "\\u7533\\u8bf7\\u4e2d"}}

ItemRecords == {v \o t \o s : v \in VisibleFields, t \in TitleFields, s \in StateFields}

InitItems ==
    /\ RunIdle
    /\ fn = "items"
    /\ inp \in ItemRecords
    /\ out = <<"none">>

BuildPatent ==
    /\ fn = "items" /\ out = <<"none">>
    /\ out' = <<"patent", build_patent_items(<<inp>>)>>
    /\ UNCHANGED <<fn, inp>>
    /\ UNCHANGED runVars

BuildAward ==
    /\ fn = "items" /\ out = <<"none">>
    /\ out' = <<"award", build_award_items(<<inp>>)>>
    /\ UNCHANGED <<fn, inp>>
    /\ UNCHANGED runVars

NextItems == BuildPatent \/ BuildAward

SpecItems == InitItems /\ [][NextItems]_vars

\* the state text of the record, "" when it has none
StateOf(r) == IF HasKey(r, "State") THEN Get(r, "State") ELSE ""

RedState(text, state) ==
    Contains(text, " <font class=\"red\"><b>(" \o state \o ")</b></font></li>")

BlueState(text, state) ==
    Contains(text, " <font class=\"blue\"><b>(" \o state \o ")</b></font></li>")

\* an emitted patent item whose record has a non-empty state
PatentWithState == fn = "items" /\ out[1] = "patent" /\ out[2] # "" /\ StateOf(inp) # ""

\* C9 as stated: red whenever the state contains the grant token, blue whenever it
\* contains the publication token, blue for any other non-empty state
C9_RedIfGrantBlueIfPublic ==
    PatentWithState =>
        /\ Contains(StateOf(inp), "\\u6388\\u6743") => RedState(out[2], StateOf(inp))
        /\ Contains(StateOf(inp), "\\u516c\\u5f00") => BlueState(out[2], StateOf(inp))
        /\ (~Contains(StateOf(inp), "\\u6388\\u6743") /\ ~Contains(StateOf(inp), "\\u516c\\u5f00"))
              => BlueState(out[2], StateOf(inp))

\* C9 amended: red exactly when the state contains the grant token and not the
\* publication token; blue for every other non-empty state
C9_PublicFirst ==
    PatentWithState =>
        IF Contains(StateOf(inp), "\\u6388\\u6743") /\ ~Contains(StateOf(inp), "\\u516c\\u5f00")
        THEN RedState(out[2], StateOf(inp)) /\ ~BlueState(out[2], StateOf(inp))
        ELSE BlueState(out[2], StateOf(inp)) /\ ~RedState(out[2], StateOf(inp))

\* C9 witness: a state that contains the grant token inside a longer text is red
C9_Witness ==
    /\ PatentWithState
    /\ StateOf(inp) = "\\u5df2\\u6388\\u6743"
    /\ RedState(out[2], StateOf(inp))

\* the record has a visibility field
HasVisibility(r) == HasKey(r, "Visible") \/ HasKey(r, "visable")

\* the value of the visibility field
VisibilityOf(r) == IF HasKey(r, "Visible") THEN Get(r, "Visible") ELSE Get(r, "visable")

AcceptedTokens == {"1", "true", "True", "\\u662f", "yes", "Yes"}

ItemBuilt == fn = "items" /\ out[1] \in {"patent", "award"}

\* C10 as stated: skipped whenever a visibility field is present with a value outside
\* the accepted tokens; emitted only without the field or with an accepted token
C10_SkippedUnlessAccepted ==
    ItemBuilt =>
        /\ (HasVisibility(inp) /\ VisibilityOf(inp) \notin AcceptedTokens) => out[2] = ""
        /\ out[2] # "" => (~HasVisibility(inp) \/ VisibilityOf(inp) \in AcceptedTokens)

\* C10 amended: skipped whenever the visibility value is non-blank and outside the
\* accepted tokens; emitted only without the field, with a blank value or with an
\* accepted token, and a record with a blank value and a title is emitted
C10_SkippedIfNonBlankUnaccepted ==
    ItemBuilt =>
        /\ (HasVisibility(inp) /\ VisibilityOf(inp) # "" /\ VisibilityOf(inp) \notin AcceptedTokens)
              => out[2] = ""
        /\ out[2] # "" => \/ ~HasVisibility(inp)
                          \/ VisibilityOf(inp) = ""
                          \/ VisibilityOf(inp) \in AcceptedTokens
        /\ (HasVisibility(inp) /\ VisibilityOf(inp) = "" /\ Get(inp, "Title") # "")
              => out[2] # ""

\* C10 witness: an award with a title and the visibility value "no" gives no item
C10_Witness ==
    /\ fn = "items" /\ out[1] = "award"
    /\ HasVisibility(inp) /\ VisibilityOf(inp) = "no" /\ Get(inp, "Title") # ""
    /\ out[2] = ""

(***************************************************************************)
(* SpecAwards: build_award_items on one record whose fields are a year, a   *)
(* title and a note, in every column order.                                *)
(***************************************************************************)
AwardFields ==
    {<<"year", y>> : y \in {"2023", "1999"}}
    \cup {<<"title", t>> : t \in {"Best Paper", "3rd Place", "Best"}}
    \cup {<<"note", n>> : n \in {"ACM", "x"}}

AwardRecords ==
    {r \in [1..3 -> AwardFields] : {r[i][1] : i \in 1..3} = {"year", "title", "note"}}

InitAwards ==
    /\ RunIdle
    /\ fn = "award"
    /\ inp \in AwardRecords
    /\ out = <<"none">>

CallBuildAwardItems ==
    /\ fn = "award" /\ out = <<"none">>
    /\ out' = <<"html", build_award_items(<<inp>>)>>
    /\ UNCHANGED <<fn, inp>>
    /\ UNCHANGED runVars

NextAwards == CallBuildAwardItems

SpecAwards == InitAwards /\ [][NextAwards]_vars

\* the position of a field in the record
ColumnOf(r, key) == CHOOSE i \in 1..Len(r) : r[i][1] = key

MaxNewsFields == 2

NewsFieldNames == {"date", "text", "a", "b"}

NewsValues == {"", "p", "q"}

NewsRecords ==
    {r \in UNION {[1..n -> NewsFieldNames \X NewsValues] : n \in 1..MaxNewsFields} :
        /\ \A i, j \in 1..Len(r) : r[i][1] = r[j][1] => i = j
        /\ \E i \in 1..Len(r) : r[i][2] # ""}

InitNews ==
    /\ RunIdle
    /\ fn = "news"
    /\ inp \in NewsRecords
    /\ out = <<"none">>

CallBuildNewsItems ==
    /\ fn = "news" /\ out = <<"none">>
    /\ out' = <<"html", build_news_items(<<inp>>)>>
    /\ UNCHANGED <<fn, inp>>
    /\ UNCHANGED runVars

NextNews == CallBuildNewsItems

SpecNews == InitNews /\ [][NextNews]_vars

DateCandidates == <<"date", "\\u65e5\\u671f", "\\u65f6\\u95f4">>

TextCandidates == <<"text", "content", "\\u63cf\\u8ff0", "description", "desc", "\\u5185\\u5bb9", "news">>

\* the ", "-join of all non-empty field values of the record
JoinedValues(r) == Join(NonEmpty(Values(r)), ", ")

\* the value of the date field, "" when no date field is found
DateOf(r) ==
    IF find_col(r, DateCandidates) # <<>> THEN Get(r, find_col(r, DateCandidates)[1]) ELSE ""

NewsLine(date_found, date, text) ==
    (IF date_found THEN "<li><i>" \o date \o "</i> : " \o text \o "</li>"
     ELSE "<li>" \o text \o "</li>") \o "\n<br>"

\* C12 as stated: the date form whenever a date field is found; TEXT is the value of
\* the designated text-like field, and the join of all non-empty values when the
\* record has no such field
C12_DateFoundTextOrJoin ==
    (fn = "news" /\ out[1] = "html") =>
        out[2] = NewsLine(find_col(inp, DateCandidates) # <<>>, DateOf(inp),
                          IF find_col(inp, TextCandidates) # <<>>
                          THEN Get(inp, find_col(inp, TextCandidates)[1])
                          ELSE JoinedValues(inp))

\* the value TEXT starts from: that of the designated text-like field, and that of the
\* first field of the record when none is designated
PrimaryText(r) ==
    IF find_col(r, TextCandidates) # <<>> THEN Get(r, find_col(r, TextCandidates)[1])
    ELSE r[1][2]

\* C12 amended: one item and a <br> line; the date form only when a date field is found
\* and its value is non-empty; TEXT is the value of the designated text-like field, or
\* of the first field when none is designated, and the join of all non-empty values
\* only when that value is empty
C12_NonEmptyDatePrimaryText ==
    (fn = "news" /\ out[1] = "html") =>
        out[2] = NewsLine(DateOf(inp) # "", DateOf(inp),
                          IF PrimaryText(inp) # "" THEN PrimaryText(inp)
                          ELSE JoinedValues(inp))

\* C12 witness: a record without a date or text-like field and two non-empty values
\* gives the first value alone
C12_Witness ==
    /\ fn = "news" /\ out[1] = "html"
    /\ inp = <<<<"a", "p">>, <<"b", "q">>>>
    /\ out[2] = "<li>p</li>\n<br>"

====
